---- MODULE Spec2Model ----
(***************************************************************************)
(* Model of paulwitt/picameras.                                            *)
(*                                                                         *)
(*   SpecCam : src/pizero.py, the clip-producing camera loop (main).       *)
(*   SpecHub : src/scripts/smartthings-pi.py, the hub-integrated process:  *)
(*             MonitorCamera (poll-driven ticks, notify_hubs and its       *)
(*             response handlers), StatusServer (SUBSCRIBE / GET) and      *)
(*             SSDPServer (discovery), all run by one Twisted reactor, so  *)
(*             every handler is one atomic step.                           *)
(*                                                                         *)
(* Strings the code slices, splits or searches are modelled as sequences   *)
(* of one-character strings.  Each program has an observation variable     *)
(* (cam_ev, hub_ev) holding what the last handler read, returned, logged   *)
(* and sent.                                                               *)
(***************************************************************************)
EXTENDS Integers, Sequences, FiniteSets, TLC

(***************************************************************************)
(* Bounds of the model.                                                    *)
(***************************************************************************)
\* clock resolution of the clip loop: clock steps per second
Unit == 2
\* the clip loop's clock stops at MaxSeconds seconds
MaxSeconds == 5
\* largest configured minimum_video_length (seconds)
MaxL == 2
\* most VideoWriter objects created in one run
MaxWriters == 3
\* largest lag (clock steps) between the tick's timestamp read and the
\* second clock read that sets video_start
MaxDelay == 1

\* python's None, standing where the code holds a clock value, a path, a
\* writer or a frame (all modelled as naturals)
None == 0 - 1

(***************************************************************************)
(* Configuration shared by both programs (conf[...]).                      *)
(***************************************************************************)
\* conf["min_area"]
min_area == 32

RECURSIVE SeqsUpTo(_, _)
SeqsUpTo(S, n) ==
    IF n = 0 THEN {<<>>}
    ELSE LET shorter == SeqsUpTo(S, n - 1)
         IN  shorter \cup {Append(q, a) : q \in {r \in shorter : Len(r) = n - 1}, a \in S}

\* the contour lists findContours yields: none, one contour of each area,
\* and pairs that mix or repeat surviving contours
ContourLists ==
    { <<>>, <<10>>, <<32>>, <<50>>, <<10, 50>>, <<50, 10>>, <<50, 32>> }

\* some contour of the list passes the `area < min_area: continue` filter
Survives(cnts) == \E i \in 1..Len(cnts) : ~(cnts[i] < min_area)

(***************************************************************************)
(* src/pizero.py                                                           *)
(***************************************************************************)
VARIABLES
    cam_pc,             \* "loop" while capture_continuous runs, "done" after
    cam_now,            \* the clock datetime.now() reads, in clock steps
    minimum_video_length, \* conf['minimum_video_length'], seconds
    avg,                \* None until the background model is seeded
    text,               \* "Unoccupied" / "Occupied"
    video_start,        \* None or the clock value read when the clip began
    in_window,          \* inside the minimum clip length
    filename,           \* path of the last clip, from get_path
    out,                \* None or the id of the current VideoWriter
    sinks,              \* ids of the VideoWriters not released yet
    nwriters,           \* VideoWriters created so far
    session_start,      \* clock value given to video_start by the last open
    cam_ev,             \* what the last loop iteration observed and did
    script              \* outcomes of the scripted frames played so far

camvars == <<cam_pc, cam_now, minimum_video_length, avg, text, video_start,
             in_window, filename, out, sinks, nwriters, session_start, cam_ev,
             script>>

\* get_path: strftime("%A %d %B %Y %I-%M-%S%p") keeps whole seconds only
get_path(timestamp) == timestamp \div Unit

\* State of src/scripts/smartthings-pi.py; its handlers follow further down.
VARIABLES
    hub_now,            \* the clock time() and datetime.now() read, seconds
    S3,                 \* "resource", or "Unbound" when creating it failed
    device_target,      \* URN built from conf['device_index']
    self_avg,           \* MonitorCamera.avg: None until seeded
    calls,              \* the reactor's pending callLater calls
    camera_status,      \* camera_status['last_state']
    camera_image,       \* camera_image['last_image']
    subscription_list,  \* cb_url -> [expiration]
    requests,           \* the cb_urls with a POST awaiting its outcome
    hub_ev              \* what the last handler observed, returned and sent

hubvars == <<hub_now, S3, device_target, self_avg, calls, camera_status,
             camera_image, subscription_list, requests, hub_ev>>

\* '/raspicameras/front/blank.jpg', in the shape of "/{bucket}/{key}"
BlankImage == <<"raspicameras", <<"front", None, ".jpg">>>>

\* a dict with no keys
EmptyDict == [k \in {} |-> 0]

vars == <<camvars, hubvars>>

\* the hub-integrated process is not running
HubNotStarted ==
    /\ hub_now = 0 /\ S3 = "Unbound" /\ device_target = <<>> /\ self_avg = None
    /\ calls = <<>> /\ camera_status = "inactive" /\ camera_image = BlankImage
    /\ subscription_list = EmptyDict /\ requests = {}
    /\ hub_ev = [kind |-> "off"]

CamInit ==
    /\ cam_pc = "loop"
    /\ cam_now = 0
    /\ minimum_video_length \in 0..MaxL
    /\ avg = None
    \* text, video_start, in_window and filename are not bound before the
    \* first frame and are not read before they are assigned
    /\ text = "Unbound"
    /\ video_start = None
    /\ in_window = FALSE
    /\ filename = None
    /\ out = None
    /\ sinks = {}
    /\ nwriters = 0
    /\ session_start = None
    /\ cam_ev = [kind |-> "init"]
    /\ script = <<>>
    /\ HubNotStarted

\* `if not text == "Occupied":` - a clip is opened only when none is running
ShouldOpenAlways(t) == TRUE
ShouldOpen(t) == ~(t = "Occupied")

\* `if out: out.release()`: the writers still open once the old one, if any,
\* is released
KeepOld(o, open) == open
ReleaseOld(o, open) == IF o # None THEN open \ {o} ELSE open

\* One pass of `for c in cnts` from contour i on.  s carries the names the
\* loop body assigns; clock is what datetime.now() returns inside the body.
RECURSIVE CamContourLoop(_, _, _, _, _)
CamContourLoop(cnts, i, s, timestamp, clock) ==
    IF i > Len(cnts) THEN s
    ELSE IF cnts[i] < min_area
         THEN CamContourLoop(cnts, i + 1, s, timestamp, clock)
    ELSE IF ShouldOpen(s.text)
         THEN LET id == s.nwriters + 1
                  released == ReleaseOld(s.out, s.sinks)
              IN  CamContourLoop(cnts, i + 1,
                     [s EXCEPT !.text = "Occupied",
                               !.video_start = clock,
                               !.filename = get_path(timestamp),
                               !.out = id,
                               !.sinks = released \cup {id},
                               !.nwriters = id,
                               !.opened = s.opened + 1,
                               !.two_open = s.two_open \/ Cardinality(released) > 0],
                     timestamp, clock)
    ELSE CamContourLoop(cnts, i + 1, s, timestamp, clock)

\* `if video_start:` ... in_window = elapsed < conf['minimum_video_length']
CamWindowNever(timestamp, start, L, window) == FALSE
CamWindow(timestamp, start, L, window) ==
    IF start # None THEN (timestamp - start) < L * Unit ELSE window

\* `if text == "Occupied": out.write(frame)`: the writer the frame goes to
WrittenAlways(t, o) == o
Written(t, o) == IF t = "Occupied" THEN o ELSE None

\* `if not cnts and not in_window: text = "Unoccupied"`
CamText(cnts, window, t) ==
    IF cnts = <<>> /\ ~window THEN "Unoccupied" ELSE t

\* what a frame of the scripted sequence shows
FrameClass(cnts) ==
    IF cnts = <<>> THEN "no-motion"
    ELSE IF Survives(cnts) THEN "motion" ELSE "below-threshold"

\* the scripted sequence [no-motion, motion, motion, no-motion, no-motion]
Script == <<"no-motion", "motion", "motion", "no-motion", "no-motion">>

\* The script monitor: script holds one entry per frame of the longest prefix
\* of Script that the latest frames, one second apart, have played from an
\* Unoccupied state.
ScriptStep(class, timestamp, pre_text, entry) ==
    LET k == Len(script)
        spaced == cam_ev.kind \in {"seed", "tick"} /\ timestamp - cam_ev.timestamp = Unit
    IN  IF k >= 1 /\ k < Len(Script) /\ class = Script[k + 1] /\ spaced
        THEN Append(script, entry)
        ELSE IF class = Script[1] /\ pre_text = "Unoccupied"
        THEN <<entry>>
        ELSE <<>>

\* first frame: seed the background model and `continue`
CamSeed ==
    /\ cam_pc = "loop"
    /\ avg = None
    /\ \E gap \in 0..Unit :
          /\ cam_now + gap <= MaxSeconds * Unit
          /\ cam_now' = cam_now + gap
          /\ cam_ev' = [kind |-> "seed", timestamp |-> cam_now + gap]
    /\ avg' = 0
    /\ text' = "Unoccupied"
    /\ video_start' = None
    /\ in_window' = FALSE
    /\ script' = <<[text |-> "Unoccupied", opened |-> 0, lag |-> 0]>>
    /\ UNCHANGED <<cam_pc, minimum_video_length, filename, out, sinks, nwriters, session_start>>

\* every later frame: detect, open a clip, write, close the window
CamTick ==
    /\ cam_pc = "loop"
    /\ avg # None
    /\ \E gap \in 0..Unit, delay \in 0..MaxDelay, cnts \in ContourLists :
        LET timestamp == cam_now + gap
            s0 == [text |-> text, video_start |-> video_start, filename |-> filename,
                   out |-> out, sinks |-> sinks, nwriters |-> nwriters,
                   opened |-> 0, two_open |-> FALSE]
        IN  /\ timestamp + delay <= MaxSeconds * Unit
            /\ \E s1 \in {CamContourLoop(cnts, 1, s0, timestamp, timestamp + delay)} :
               \E window \in {CamWindow(timestamp, s1.video_start, minimum_video_length, in_window)} :
               LET wrote == Written(s1.text, s1.out)
                   lag == IF s1.opened > 0 THEN delay ELSE 0
               IN
                /\ s1.nwriters <= MaxWriters
                \* the second clock read happens only when a clip is opened
                /\ (s1.opened = 0 => delay = 0)
                /\ cam_now' = timestamp + lag
                /\ text' = CamText(cnts, window, s1.text)
                /\ video_start' = IF ~window THEN None ELSE s1.video_start
                /\ in_window' = window
                /\ filename' = s1.filename
                /\ out' = s1.out
                /\ sinks' = s1.sinks
                /\ nwriters' = s1.nwriters
                /\ session_start' = IF s1.opened > 0 THEN s1.video_start ELSE session_start
                /\ cam_ev' = [kind |-> "tick", timestamp |-> timestamp, cnts |-> cnts,
                              pre_text |-> text, pre_start |-> video_start,
                              pre_out |-> out, pre_filename |-> filename,
                              opened |-> s1.opened, two_open |-> s1.two_open,
                              wrote |-> wrote, wrote_open |-> wrote \in s1.sinks]
                /\ script' = ScriptStep(FrameClass(cnts), timestamp, text,
                                [text |-> CamText(cnts, window, s1.text),
                                 opened |-> s1.opened, lag |-> lag])
    /\ UNCHANGED <<cam_pc, minimum_video_length, avg>>

\* KeyboardInterrupt or the `q` key: leave the loop, release the writer
CamStop ==
    /\ cam_pc = "loop"
    /\ cam_pc' = "done"
    /\ sinks' = IF out # None THEN sinks \ {out} ELSE sinks
    /\ out' = None
    /\ cam_ev' = [kind |-> "stop"]
    /\ script' = <<>>
    /\ UNCHANGED <<cam_now, minimum_video_length, avg, text, video_start, in_window,
                   filename, nwriters, session_start>>

CamNext == CamSeed \/ CamTick \/ CamStop

(***************************************************************************)
(* src/scripts/smartthings-pi.py                                           *)
(***************************************************************************)
\* time() advances in steps of ClockStep seconds, MaxClock steps at most; a
\* delayed call's polling_freq is far below that resolution, so a pending
\* check_state may run at any clock value
ClockStep == 43200
MaxClock == 3
\* conf['device_index'] of the polled camera, and the indexes discovery is
\* checked for
device_index == 1
DeviceIndexes == {1, 2}

\* lifetime of a subscription: `time() + 24 * 3600`
Expiry == 24 * 3600
\* conf["polling_freq"]
polling_freq == 1
UUID == "d1c58eb4-9220-11e4-96fa-123b93f75cba"
\* conf["s3bucket"], conf["s3folder"], conf["basepath"], conf["fileext"]
s3bucket == "bucket"
s3folder == "folder"
basepath == "basepath"
fileext == ".jpg"
\* 'urn:schemas-upnp-org:device:RPi_Security_Camera:{}'.format(device_index),
\* the literal shortened to "urn:Pi:"
DeviceTarget(index) ==
    <<"u", "r", "n", ":", "P", "i", ":">> \o <<IF index = 1 THEN "1" ELSE IF index = 2 THEN "2" ELSE "3">>

\* values of the `callback` header that requests carry
CallbackHeaders ==
    { <<"<", "a", ">">>, <<"<", "b", ">">>, <<"[", "a", "]">> }
\* a request without that header
NoHeader == <<"-">>

\* python's s[1:-1]
Slice1(h) == IF Len(h) <= 2 THEN <<>> ELSE SubSeq(h, 2, Len(h) - 1)

\* the clip-producing loop is not running
CamNotStarted ==
    /\ cam_pc = "off" /\ cam_now = 0 /\ minimum_video_length = 0 /\ avg = None
    /\ text = "Unbound" /\ video_start = None /\ in_window = FALSE
    /\ filename = None /\ out = None /\ sinks = {} /\ nwriters = 0
    /\ session_start = None /\ cam_ev = [kind |-> "off"] /\ script = <<>>

\* main() and MonitorCamera.__init__, for the given device indexes and
\* outcomes of creating the S3 resource
HubStart(indexes, resources) ==
    /\ hub_now = 0
    /\ S3 \in resources
    /\ \E index \in indexes : device_target = DeviceTarget(index)
    /\ self_avg = None
    \* MonitorCamera.__init__ schedules the first check with 'inactive'
    /\ calls = <<[delay |-> polling_freq, current_state |-> "inactive"]>>
    /\ camera_status = "inactive"
    /\ camera_image = BlankImage
    /\ subscription_list = EmptyDict
    /\ requests = {}

HubInit ==
    /\ HubStart({device_index}, {"resource", "Unbound"})
    /\ hub_ev = [kind |-> "init"]
    /\ CamNotStarted

\* the clock moves on between handlers
HubClock ==
    /\ hub_now + ClockStep <= MaxClock * ClockStep
    /\ hub_now' = hub_now + ClockStep
    /\ hub_ev' = [kind |-> "clock"]
    /\ UNCHANGED <<S3, device_target, self_avg, calls, camera_status, camera_image,
                   subscription_list, requests>>

(***************************************************************************)
(* StatusServer                                                            *)
(***************************************************************************)
\* the body render_SUBSCRIBE builds
SubscribeMsg ==
    LET imageurl == camera_image
        cmd == IF camera_status = "inactive" THEN "status-inactive" ELSE "status-active"
    IN  <<"msg", cmd, UUID, device_target, imageurl>>

\* the body render_GET builds for /status
GetMsgActive ==
    <<"msg", "status-active", UUID, device_target, camera_image>>
GetMsg ==
    LET imageurl == camera_image
        cmd == IF camera_status = "inactive" THEN "status-inactive" ELSE "status-active"
    IN  <<"msg", cmd, UUID, device_target, imageurl>>

\* `self.subscription_list[cb_url]['expiration'] = time() + 24 * 3600`, after
\* the entry was created empty when the key was new
RefreshKeepsOld(list, cb_url, expiration) ==
    [k \in DOMAIN list \cup {cb_url} |->
        IF k \in DOMAIN list THEN list[k] ELSE [expiration |-> expiration]]
\* `self.subscription_list[cb_url] = {}` when the key is new
AddAlone(list, cb_url) ==
    [k \in {cb_url} |-> IF k \in DOMAIN list THEN list[k] ELSE EmptyDict]
AddIfNew(list, cb_url) ==
    [k \in DOMAIN list \cup {cb_url} |->
        IF k \in DOMAIN list THEN list[k] ELSE EmptyDict]
\* `self.subscription_list[cb_url]['expiration'] = ...`
SetExpiration(list, cb_url, expiration) ==
    [list EXCEPT ![cb_url] = [expiration |-> expiration]]
\* a handler that returns between the two statements for a new key
RefreshTorn(list, cb_url, expiration) ==
    IF cb_url \in DOMAIN list THEN SetExpiration(list, cb_url, expiration)
    ELSE AddIfNew(list, cb_url)
Refresh(list, cb_url, expiration) ==
    SetExpiration(AddIfNew(list, cb_url), cb_url, expiration)

render_SUBSCRIBE ==
    \E header \in CallbackHeaders \cup {NoHeader} :
        LET present == header # NoHeader
            cb_url == Slice1(header)
        IN  /\ subscription_list' =
                  IF present THEN Refresh(subscription_list, cb_url, hub_now + Expiry)
                  ELSE subscription_list
            /\ hub_ev' = [kind |-> "SUBSCRIBE", header |-> header,
                          log |-> IF ~present THEN "none"
                                  ELSE IF cb_url \in DOMAIN subscription_list
                                       THEN "Refreshed" ELSE "Added",
                          pre_keys |-> DOMAIN subscription_list,
                          pre_expiration |->
                              IF present /\ cb_url \in DOMAIN subscription_list
                              THEN subscription_list[cb_url].expiration ELSE None,
                          clock |-> hub_now,
                          body |-> SubscribeMsg]
            /\ UNCHANGED <<hub_now, S3, device_target, self_avg, calls, camera_status,
                           camera_image, requests>>

render_GET ==
    \E path \in {"/status", "/"} :
        /\ hub_ev' = [kind |-> "GET", path |-> path,
                      body |-> IF path = "/status" THEN GetMsg ELSE <<>>]
        /\ UNCHANGED <<hub_now, S3, device_target, self_avg, calls, camera_status,
                       camera_image, subscription_list, requests>>

(***************************************************************************)
(* MonitorCamera                                                           *)
(***************************************************************************)
\* "{}/{}{}".format(basepath, timestamp.strftime("%Y-%m-%d-%H-%M-%S"), fileext)
hub_get_path(base, ext, timestamp) == <<base, timestamp, ext>>

\* `if self.subscription_list[subscription]['expiration'] > time()`
StillValidAll(list, k, clock) == TRUE
StillValid(list, k, clock) == list[k].expiration > clock

\* notify_hubs: the callbacks a POST is sent to
NotifyTargets(list, clock) == {k \in DOMAIN list : StillValid(list, k, clock)}

\* the POSTs of one notify_hubs pass join those in flight
PostedWhenIdle(reqs, targets) == IF reqs = {} THEN targets ELSE reqs
Posted(reqs, targets) == reqs \cup targets

\* `if current_state == "inactive":` inside the contour loop
BecomesActive(state) == state = "inactive"

\* `if not cnts and current_state == "active":`
BecomesInactiveAnyFrame(cnts, state) == state = "active"
BecomesInactive(cnts, state) == cnts = <<>> /\ state = "active"

\* `for c in cnts` from contour i on; s carries current_state, last_state, notify
RECURSIVE HubContourLoop(_, _, _)
HubContourLoop(cnts, i, s) ==
    IF i > Len(cnts) THEN s
    ELSE IF cnts[i] < min_area THEN HubContourLoop(cnts, i + 1, s)
    ELSE IF BecomesActive(s.current_state)
         THEN HubContourLoop(cnts, i + 1,
                 [s EXCEPT !.current_state = "active", !.last_state = "active",
                           !.notify = TRUE, !.changes = s.changes + 1])
    ELSE HubContourLoop(cnts, i + 1, s)

\* the detection part of check_state, lines 292-316
DetectKeepsLast(cnts, current_state) ==
    LET s1 == HubContourLoop(cnts, 1, [current_state |-> current_state,
                                       last_state |-> camera_status,
                                       notify |-> FALSE, changes |-> 0])
    IN  IF BecomesInactive(cnts, s1.current_state)
        THEN [s1 EXCEPT !.current_state = "inactive",
                        !.notify = TRUE, !.changes = s1.changes + 1]
        ELSE s1
Detect(cnts, current_state) ==
    LET s1 == HubContourLoop(cnts, 1, [current_state |-> current_state,
                                       last_state |-> camera_status,
                                       notify |-> FALSE, changes |-> 0])
    IN  IF BecomesInactive(cnts, s1.current_state)
        THEN [s1 EXCEPT !.current_state = "inactive", !.last_state = "inactive",
                        !.notify = TRUE, !.changes = s1.changes + 1]
        ELSE s1

\* `if current_state == "active":` ... `if notify:` - the frame is uploaded
\* and last_image set
ShouldUploadWhenActive(current_state, notify) == current_state = "active"
ShouldUpload(current_state, notify) == current_state = "active" /\ notify

\* `if notify: self.notify_hubs()`
ShouldNotifyAlways(notify) == TRUE
ShouldNotify(notify) == notify

\* what `self.camera.capture(...)` and the resize of its frame come to: a
\* frame, an array that resize fails on with AttributeError, or an exception
\* raised by capture itself
CaptureOutcomes == {"frame", "no-frame", "raises"}

\* check_state(current_state): one evaluation tick
check_state ==
    /\ calls # <<>>
    /\ \E n \in 1..Len(calls), capture \in CaptureOutcomes, cnts \in ContourLists,
          upload \in {"ok", "ClientError"} :
        LET current_state == calls[n].current_state
            rest == SubSeq(calls, 1, n - 1) \o SubSeq(calls, n + 1, Len(calls))
            again(state) == Append(rest, [delay |-> polling_freq, current_state |-> state])
            base == [kind |-> "tick", arg |-> current_state, pre_last |-> camera_status,
                     pre_image |-> camera_image,
                     cnts |-> <<>>, result |-> current_state, changes |-> 0,
                     upload |-> "none", notified |-> 0, attempts |-> {},
                     scheduled |-> 0, clock |-> hub_now, outcome |-> "none"]
        IN  IF capture = "raises"
            THEN \* camera.capture raised: the exception leaves check_state
                 \* before anything is assigned or scheduled
                 /\ cnts = <<>> /\ upload = "ok"
                 /\ calls' = rest
                 /\ hub_ev' = [base EXCEPT !.outcome = "capture-error"]
                 /\ UNCHANGED <<self_avg, camera_status, camera_image, requests>>
            ELSE IF capture = "no-frame"
            THEN \* imutils.resize raised AttributeError: log, reschedule, return
                 /\ cnts = <<>> /\ upload = "ok"
                 /\ calls' = again(current_state)
                 /\ hub_ev' = [base EXCEPT !.outcome = "resize-error", !.scheduled = 1]
                 /\ UNCHANGED <<self_avg, camera_status, camera_image, requests>>
            ELSE IF self_avg = None
            THEN \* first frame: start the background model
                 /\ cnts = <<>> /\ upload = "ok"
                 /\ self_avg' = 0
                 /\ calls' = again(current_state)
                 /\ hub_ev' = [base EXCEPT !.outcome = "seed", !.scheduled = 1]
                 /\ UNCHANGED <<camera_status, camera_image, requests>>
            ELSE
              \E d \in {Detect(cnts, current_state)} :
                LET uploads == ShouldUpload(d.current_state, d.notify)
                    image == <<s3bucket, hub_get_path(s3folder, fileext, hub_now)>>
                    targets == NotifyTargets(subscription_list, hub_now)
                    seen == [base EXCEPT !.cnts = cnts, !.result = d.current_state,
                                         !.changes = d.changes]
                IN  /\ (~uploads \/ S3 = "Unbound") => upload = "ok"
                    /\ camera_status' = d.last_state
                    /\ UNCHANGED self_avg
                    /\ IF uploads /\ S3 = "Unbound"
                       THEN \* S3 is not bound: NameError leaves check_state
                            /\ calls' = rest
                            /\ hub_ev' = [seen EXCEPT !.outcome = "NameError",
                                                      !.upload = "NameError"]
                            /\ UNCHANGED <<camera_image, requests>>
                       ELSE /\ camera_image' = IF uploads THEN image ELSE camera_image
                            /\ calls' = again(d.current_state)
                            /\ IF ShouldNotify(d.notify)
                               THEN /\ requests' = Posted(requests, targets)
                                    /\ hub_ev' = [seen EXCEPT
                                          !.outcome = "done", !.scheduled = 1,
                                          !.upload = IF uploads THEN upload ELSE "none",
                                          !.notified = 1, !.attempts = targets]
                               ELSE /\ UNCHANGED requests
                                    /\ hub_ev' = [seen EXCEPT
                                          !.outcome = "done", !.scheduled = 1,
                                          !.upload = IF uploads THEN upload ELSE "none"]
    /\ UNCHANGED <<hub_now, S3, device_target, subscription_list>>

\* response codes a hub may answer a POST with
ResponseCodes == {200, 202, 404}

\* handle_response: the POST to cb_url k got a status code.  `last` tells
\* whether it was the only POST still in flight to k.
handle_response ==
    \E k \in requests, code \in ResponseCodes, last \in BOOLEAN :
        /\ requests' = IF last THEN requests \ {k} ELSE requests
        /\ hub_ev' = [kind |-> "response", to |-> k, code |-> code,
                      level |-> IF code = 202 THEN "info" ELSE "error"]
        /\ UNCHANGED <<hub_now, S3, device_target, self_avg, calls, camera_status,
                       camera_image, subscription_list>>

\* handle_error: the POST to cb_url k failed, with ResponseFailed or otherwise
handle_error ==
    \E k \in requests, failure \in {"ResponseFailed", "ConnectionRefusedError"},
       last \in BOOLEAN :
        /\ requests' = IF last THEN requests \ {k} ELSE requests
        /\ hub_ev' = [kind |-> "failure", to |-> k, failure |-> failure,
                      level |-> IF failure = "ResponseFailed" THEN "debug" ELSE "error"]
        /\ UNCHANGED <<hub_now, S3, device_target, self_avg, calls, camera_status,
                       camera_image, subscription_list>>

(***************************************************************************)
(* SSDPServer                                                              *)
(***************************************************************************)
\* most header lines in one datagram
MaxHeaders == 2
\* conf["http_port"]
status_port == 8080

\* header lines of inbound datagrams:
\*   "ST: urn:Pi:1"  "st:Pi"  "ST:x"  "ST:"  "MAN:d"  "j"  ""  "ST:n: P"
HeaderLines ==
    { <<"S", "T", ":", " ", "u", "r", "n", ":", "P", "i", ":", "1">>,
      <<"s", "t", ":", "P", "i">>,
      <<"S", "T", ":", "x">>,
      <<"S", "T", ":">>,
      <<"M", "A", "N", ":", "d">>,
      <<"j">>,
      <<>>,
      <<"S", "T", ":", "n", ":", " ", "P">> }

\* request lines, already split on ' '
CommandLines ==
    { <<"M-SEARCH", "*", "HTTP/1.1">>, <<"M-SEARCH", "/", "HTTP/1.1">>,
      <<"NOTIFY", "*", "HTTP/1.1">>, <<"M-SEARCH">> }

\* a datagram: whether it holds '\r\n\r\n', its request line, its header lines
Datagrams ==
    [sep : BOOLEAN, cmd : CommandLines, lines : SeqsUpTo(HeaderLines, MaxHeaders)]

\* the datagrams that arrive while the camera is being polled
PolledDatagrams ==
    { [sep |-> TRUE, cmd |-> <<"M-SEARCH", "*", "HTTP/1.1">>,
       lines |-> <<<<"s", "t", ":", "P", "i">>>>],
      [sep |-> TRUE, cmd |-> <<"M-SEARCH", "*", "HTTP/1.1">>,
       lines |-> <<<<"S", "T", ":", "x">>>>] }
\* and the hub that sends them
PolledAddresses == {"hub1"}

\* who sends datagrams
Addresses == {"hub1", "hub2"}

\* str.lower() on the letters header names use
Lower(c) ==
    CASE c = "S" -> "s" [] c = "T" -> "t" [] c = "M" -> "m"
      [] c = "A" -> "a" [] c = "N" -> "n" [] c = "P" -> "p" [] OTHER -> c
LowerAll(w) == [i \in 1..Len(w) |-> Lower(w[i])]

\* x.replace(': ', ':', 1): drop the space of the first ": "
ReplaceColonSpace(x) ==
    LET hits == {i \in 1..(Len(x) - 1) : x[i] = ":" /\ x[i + 1] = " "}
    IN  IF hits = {} THEN x
        ELSE LET i == CHOOSE h \in hits : \A g \in hits : h <= g
             IN  SubSeq(x, 1, i) \o SubSeq(x, i + 2, Len(x))

\* x.split(':', 1)
SplitColon(x) ==
    LET hits == {i \in 1..Len(x) : x[i] = ":"}
    IN  IF hits = {} THEN <<x>>
        ELSE LET i == CHOOSE h \in hits : \A g \in hits : h <= g
             IN  <<SubSeq(x, 1, i - 1), SubSeq(x, i + 1, Len(x))>>

\* python's `a in b` on strings
IsSubstring(a, b) ==
    \E i \in 0..(Len(b) - Len(a)) : SubSeq(b, i + 1, i + Len(a)) = a

\* `if search_target in self.device_target:`
TargetMatchesExactly(search_target, target) == search_target = target
TargetMatchesNonEmpty(search_target, target) ==
    search_target # <<>> /\ IsSubstring(search_target, target)
TargetMatches(search_target, target) == IsSubstring(search_target, target)

\* lines 121-126: the header lines as [key, value] pairs, empty lines dropped
HeaderPairs(lines) ==
    LET replaced == [i \in 1..Len(lines) |-> ReplaceColonSpace(lines[i])]
        kept == SelectSeq(replaced, LAMBDA x : Len(x) > 0)
    IN  [i \in 1..Len(kept) |-> SplitColon(kept[i])]

\* dict(...)['st'] with '' when there is no such key: the last pair wins
RECURSIVE SearchTarget(_, _)
SearchTarget(pairs, i) ==
    IF i = 0 THEN <<>>
    ELSE IF LowerAll(pairs[i][1]) = <<"s", "t">> THEN pairs[i][2]
    ELSE SearchTarget(pairs, i - 1)

\* determine_ip_for_host(address[0]): the local address facing the requester
determine_ip_for_host(host) == <<"local-ip-facing", host>>

\* SSDPServer.datagramReceived(data, address): what it logs and writes
Received(data, address) ==
    LET pairs == HeaderPairs(data.lines)
        bad == Len(data.cmd) < 2 \/ \E i \in 1..Len(pairs) : Len(pairs[i]) < 2
        search_target == SearchTarget(pairs, Len(pairs))
        url == <<determine_ip_for_host(address), status_port, "/status">>
        seen == [kind |-> "datagram", data |-> data, address |-> address,
                 outcome |-> "none", search_target |-> <<>>,
                 reply |-> <<>>, reply_to |-> "nobody"]
    IN  IF ~data.sep
        THEN [seen EXCEPT !.outcome = "ValueError-return"]
        ELSE IF bad
        THEN [seen EXCEPT !.outcome = "IndexError"]
        ELSE IF data.cmd[1] = "M-SEARCH" /\ data.cmd[2] = "*"
        THEN IF TargetMatches(search_target, device_target)
             THEN [seen EXCEPT !.outcome = "replied",
                               !.search_target = search_target,
                               !.reply = <<"200 OK", url, search_target,
                                           UUID, device_target>>,
                               !.reply_to = address]
             ELSE [seen EXCEPT !.outcome = "not-in-target",
                               !.search_target = search_target]
        ELSE [seen EXCEPT !.outcome = "ignored", !.search_target = search_target]

\* a datagram arrives while the camera is being polled
datagramReceived ==
    \E data \in PolledDatagrams, address \in PolledAddresses :
        /\ hub_ev' = Received(data, address)
        /\ UNCHANGED <<hub_now, S3, device_target, self_avg, calls, camera_status,
                       camera_image, subscription_list, requests>>

\* discovery on its own: the datagram drawn at the start is handled
SsdpInit ==
    /\ HubStart(DeviceIndexes, {"resource"})
    /\ \E data \in Datagrams, address \in Addresses :
          hub_ev = [kind |-> "inbound", data |-> data, address |-> address]
    /\ CamNotStarted

datagramInbound ==
    /\ hub_ev.kind = "inbound"
    /\ hub_ev' = Received(hub_ev.data, hub_ev.address)
    /\ UNCHANGED <<hub_now, S3, device_target, self_avg, calls, camera_status,
                   camera_image, subscription_list, requests>>

HubNext ==
    \/ HubClock
    \/ render_SUBSCRIBE
    \/ render_GET
    \/ check_state
    \/ handle_response
    \/ handle_error
    \/ datagramReceived

SsdpNext == datagramInbound

(***************************************************************************)
(* The two programs are separate processes: each specification runs one    *)
(* and leaves the other not started.                                       *)
(***************************************************************************)

SpecCam == CamInit /\ [][CamNext /\ UNCHANGED hubvars]_vars

SpecHub == HubInit /\ [][HubNext /\ UNCHANGED camvars]_vars

SpecSsdp == SsdpInit /\ [][SsdpNext /\ UNCHANGED camvars]_vars

(***************************************************************************)
(* Claims about the clip-producing loop (SpecCam).                         *)
(***************************************************************************)
\* elapsed clock steps between the clip's start and the last frame's timestamp
CamElapsed == cam_ev.timestamp - cam_ev.pre_start

\* C3: with minimum_video_length = L, a frame taken while Occupied less than
\* L seconds after the clip started leaves the state Occupied and the clip's
\* writer open, whatever the frame shows; and the state leaves Occupied only
\* on a frame with no surviving contour taken at least L seconds after the
\* clip started.
C3_Debounce ==
    (cam_ev.kind = "tick" /\ cam_ev.pre_text = "Occupied") =>
        /\ (cam_ev.pre_start # None /\ CamElapsed < minimum_video_length * Unit)
              => (text = "Occupied" /\ out = cam_ev.pre_out /\ out \in sinks)
        /\ text = "Unoccupied"
              => /\ ~Survives(cam_ev.cnts)
                 /\ cam_ev.timestamp - session_start >= minimum_video_length * Unit

\* C3 witness: a frame without motion, one second or more into a two-second
\* window, and the clip is still running
C3_Witness ==
    /\ cam_ev.kind = "tick" /\ cam_ev.pre_text = "Occupied"
    /\ cam_ev.cnts = <<>>
    /\ cam_ev.pre_start # None
    /\ CamElapsed >= Unit /\ CamElapsed < minimum_video_length * Unit
    /\ text = "Occupied" /\ out \in sinks

\* C4: a VideoWriter and a target path are created only on a frame that takes
\* the state from Unoccupied to Occupied, at most one per frame; on a frame
\* that starts Occupied nothing is created and filename and out keep their
\* values.
C4_SingleSession ==
    cam_ev.kind = "tick" =>
        /\ cam_ev.opened <= 1
        /\ cam_ev.opened = 1 => (cam_ev.pre_text = "Unoccupied" /\ text = "Occupied")
        /\ cam_ev.pre_text = "Occupied"
              => (cam_ev.opened = 0 /\ filename = cam_ev.pre_filename /\ out = cam_ev.pre_out)

\* C4 witness: motion on a frame that starts Occupied after the window lapsed
C4_Witness ==
    /\ cam_ev.kind = "tick" /\ cam_ev.pre_text = "Occupied"
    /\ Survives(cam_ev.cnts) /\ Len(cam_ev.cnts) = 2
    /\ cam_ev.pre_start = None
    /\ text = "Occupied" /\ cam_ev.opened = 0

\* the clip opens on the second frame of the script
ScriptOpensAtTwo ==
    Len(script) >= 2 =>
        /\ script[1].text = "Unoccupied"
        /\ script[2].text = "Occupied" /\ script[2].opened = 1

C13_AsStated ==
    (cam_ev.kind = "tick" /\ text = "Unoccupied") => sinks = {}

\* C14: at most one VideoWriter is open at any time, and when a clip is
\* opened while the writer of an earlier clip is still open, that writer is
\* released before the new one is created.
C14_OneSink ==
    /\ Cardinality(sinks) <= 1
    /\ out # None => sinks \subseteq {out}
    /\ cam_ev.kind = "tick" =>
          /\ ~cam_ev.two_open
          /\ (cam_ev.opened > 0 /\ cam_ev.pre_out # None) => cam_ev.pre_out \notin sinks

\* C14 witness: a clip is opened while the writer of the previous clip was
\* never released
C14_Witness ==
    /\ cam_ev.kind = "tick" /\ cam_ev.opened = 1
    /\ cam_ev.pre_out # None /\ out # cam_ev.pre_out
    /\ sinks = {out}

\* C18 as stated: a frame that starts Occupied, has no contour of area
\* >= min_area and is taken with the minimum clip length over (or the window
\* already lapsed) ends Unoccupied.
C18_AsStated ==
    (/\ cam_ev.kind = "tick" /\ cam_ev.pre_text = "Occupied"
     /\ ~Survives(cam_ev.cnts)
     /\ ~in_window
     /\ cam_ev.pre_start # None => CamElapsed >= minimum_video_length * Unit)
        => text = "Unoccupied"

\* C23: a frame's image is written exactly when the state is Occupied at
\* the point of the write, that is when the frame started Occupied or opened
\* the clip; it goes to the current writer, which is open at that moment.  A
\* frame that starts Unoccupied and opens nothing writes nothing.
C23_Writes ==
    cam_ev.kind = "tick" =>
        /\ (cam_ev.pre_text = "Occupied" \/ cam_ev.opened > 0) =>
              /\ cam_ev.wrote # None /\ cam_ev.wrote = out
              /\ cam_ev.wrote_open /\ out \in sinks
        /\ (cam_ev.pre_text = "Unoccupied" /\ cam_ev.opened = 0) =>
              (cam_ev.wrote = None /\ text = "Unoccupied")

\* C23 witness: a frame without motion that starts Unoccupied after a clip
\* ended, its writer still open: nothing is written
C23_Witness ==
    /\ cam_ev.kind = "tick" /\ cam_ev.pre_text = "Unoccupied"
    /\ cam_ev.opened = 0 /\ cam_ev.wrote = None
    /\ out # None /\ out \in sinks

(***************************************************************************)
(* Claims about the hub-integrated process (SpecHub, SpecSsdp).            *)
(***************************************************************************)
\* the last handler was a check_state that reached the detection code
Detected == hub_ev.kind = "tick" /\ hub_ev.outcome \in {"done", "NameError"}

\* C1: over any sequence of handlers, last_state and the state carried from
\* one check_state to the next go from inactive to active only in a tick
\* whose frame has a contour of area >= min_area, and from active to inactive
\* only in a tick whose frame has no such contour; no other step changes them.
C1_Step ==
    /\ camera_status' # camera_status =>
          /\ hub_ev'.kind = "tick"
          /\ camera_status' = "active" => Survives(hub_ev'.cnts)
          /\ camera_status' = "inactive" => ~Survives(hub_ev'.cnts)
    /\ hub_ev'.kind = "tick" =>
          /\ (hub_ev'.arg = "inactive" /\ hub_ev'.result = "active")
                => Survives(hub_ev'.cnts)
          /\ (hub_ev'.arg = "active" /\ hub_ev'.result = "inactive")
                => ~Survives(hub_ev'.cnts)
          /\ hub_ev'.changes <= 1
C1_Transitions == [][C1_Step]_vars

\* C1 witness: a tick took the state from active to inactive
C1_Witness ==
    /\ Detected
    /\ hub_ev.arg = "active" /\ hub_ev.result = "inactive"
    /\ hub_ev.pre_last = "active" /\ camera_status = "inactive"

\* C2 as stated: every completed tick after the seeding tick that starts
\* inactive with a surviving contour ends active, and every one that starts
\* active with no surviving contour ends inactive.
C2_AsStated ==
    (hub_ev.kind = "tick" /\ hub_ev.outcome = "done") =>
        /\ (hub_ev.arg = "inactive" /\ Survives(hub_ev.cnts))
              => (hub_ev.result = "active" /\ camera_status = "active")
        /\ (hub_ev.arg = "active" /\ ~Survives(hub_ev.cnts))
              => (hub_ev.result = "inactive" /\ camera_status = "inactive")

\* C6: a SUBSCRIBE carrying a callback leaves one entry under its address
\* that expires 24 h after this request; when the address was registered
\* already, the set of addresses is unchanged and the new expiration is not
\* earlier than the one it replaces.
C6_Idempotent ==
    (hub_ev.kind = "SUBSCRIBE" /\ hub_ev.header # NoHeader) =>
        LET cb_url == Slice1(hub_ev.header)
        IN  /\ cb_url \in DOMAIN subscription_list
            /\ subscription_list[cb_url].expiration = hub_now + 24 * 3600
            /\ hub_ev.pre_expiration # None =>
                  /\ DOMAIN subscription_list = hub_ev.pre_keys
                  /\ subscription_list[cb_url].expiration >= hub_ev.pre_expiration
                  /\ hub_ev.log = "Refreshed"

\* C6 witness: a second SUBSCRIBE from an address, later than the first
C6_Witness ==
    /\ hub_ev.kind = "SUBSCRIBE" /\ hub_ev.header # NoHeader
    /\ hub_ev.pre_expiration # None
    /\ subscription_list[Slice1(hub_ev.header)].expiration > hub_ev.pre_expiration
    /\ Cardinality(DOMAIN subscription_list) = 2

\* the datagram parses: it has the separator, a request line of two words
\* or more, and a colon in every non-empty header line
Parses(data) ==
    /\ data.sep
    /\ Len(data.cmd) >= 2
    /\ \A i \in 1..Len(data.lines) :
          Len(data.lines[i]) > 0 => \E j \in 1..Len(data.lines[i]) : data.lines[i][j] = ":"

\* C7: a datagram that parses as M-SEARCH * is answered, to its sender and
\* echoing the search target, exactly when the search target it carries is
\* a substring of device_target; and no datagram at all is answered unless
\* its search target is such a substring.
C7_Filter ==
    hub_ev.kind = "datagram" =>
        /\ (Parses(hub_ev.data) /\ hub_ev.data.cmd[1] = "M-SEARCH" /\ hub_ev.data.cmd[2] = "*")
              => /\ hub_ev.reply # <<>> <=> IsSubstring(hub_ev.search_target, device_target)
                 /\ hub_ev.reply # <<>> =>
                       (hub_ev.reply_to = hub_ev.address /\ hub_ev.reply[3] = hub_ev.search_target)
        /\ hub_ev.reply # <<>> =>
              /\ IsSubstring(hub_ev.search_target, device_target)
              /\ Parses(hub_ev.data) /\ hub_ev.data.cmd[1] = "M-SEARCH" /\ hub_ev.data.cmd[2] = "*"
        /\ hub_ev.reply = <<>> => hub_ev.reply_to = "nobody"

\* C7 witness: a search target that is a proper part of device_target is answered
C7_Witness ==
    /\ hub_ev.kind = "datagram"
    /\ hub_ev.reply # <<>>
    /\ hub_ev.search_target # <<>> /\ hub_ev.search_target # device_target

\* C8: a notify_hubs pass POSTs to every entry that expires after the time
\* of the pass and to no entry that expired before it.
C8_SkipExpired ==
    (hub_ev.kind = "tick" /\ hub_ev.notified > 0) =>
        /\ hub_ev.attempts \subseteq DOMAIN subscription_list
        /\ \A k \in DOMAIN subscription_list :
              /\ subscription_list[k].expiration > hub_now => k \in hub_ev.attempts
              /\ subscription_list[k].expiration < hub_now => k \notin hub_ev.attempts
        /\ hub_ev.attempts \subseteq requests

\* C8 witness: a pass over one entry still valid and one expired
C8_Witness ==
    /\ hub_ev.kind = "tick" /\ hub_ev.notified > 0
    /\ \E k \in DOMAIN subscription_list : subscription_list[k].expiration > hub_now
    /\ \E k \in DOMAIN subscription_list : subscription_list[k].expiration < hub_now

\* C9 as stated: notify_hubs runs once in every tick that changes the
\* occupancy state and in no other tick.
C9_AsStated ==
    hub_ev.kind = "tick" =>
        /\ camera_status # hub_ev.pre_last => hub_ev.notified = 1
        /\ camera_status = hub_ev.pre_last => hub_ev.notified = 0

\* the body both handlers are to return for the present snapshot
StatusBody ==
    <<"msg", IF camera_status = "inactive" THEN "status-inactive" ELSE "status-active",
      UUID, device_target, camera_image>>

\* C10: SUBSCRIBE, whether it adds or refreshes, and GET /status return the
\* same body for the same snapshot: status-inactive when last_state is
\* inactive and status-active otherwise, with the device identity and the
\* last image; before any transition that is status-inactive with the blank
\* image.
C10_SameBody ==
    /\ SubscribeMsg = GetMsg
    /\ hub_ev.kind = "SUBSCRIBE" => (hub_ev.body = GetMsg /\ hub_ev.body = StatusBody)
    /\ (hub_ev.kind = "GET" /\ hub_ev.path = "/status")
          => (hub_ev.body = SubscribeMsg /\ hub_ev.body = StatusBody)
    /\ (camera_status = "inactive" /\ camera_image = BlankImage)
          => GetMsg = <<"msg", "status-inactive", UUID, device_target, BlankImage>>

\* C10 witness: a refreshing SUBSCRIBE answered before any transition
C10_Witness ==
    /\ hub_ev.kind = "SUBSCRIBE" /\ hub_ev.log = "Refreshed"
    /\ camera_status = "inactive" /\ camera_image = BlankImage
    /\ hub_ev.body[2] = "status-inactive"

\* the last handler was a check_state whose capture failed
CaptureFailed ==
    hub_ev.kind = "tick" /\ hub_ev.outcome \in {"resize-error", "capture-error"}

\* C11 as stated: a tick whose capture fails schedules the next tick with the
\* same state and the same delay and leaves last_state and last_image as
\* they were.
C11_AsStated ==
    CaptureFailed =>
        /\ hub_ev.scheduled = 1
        /\ calls = <<[delay |-> polling_freq, current_state |-> hub_ev.arg]>>
        /\ camera_status = hub_ev.pre_last
        /\ camera_image = hub_ev.pre_image

\* C12: the state every pending check_state was scheduled with equals
\* last_state, from the first call on; a tick that runs to its end leaves
\* one such call, scheduled with the state the tick ended in.
C12_Agree ==
    /\ \A i \in 1..Len(calls) : calls[i].current_state = camera_status
    /\ hub_ev.kind = "init" => (calls # <<>> /\ camera_status = "inactive")
    /\ (hub_ev.kind = "tick" /\ hub_ev.outcome = "done") =>
          /\ Len(calls) = 1
          /\ calls[1].current_state = hub_ev.result
          /\ hub_ev.result = camera_status

\* C12 witness: a completed tick took both from active to inactive
C12_Witness ==
    /\ hub_ev.kind = "tick" /\ hub_ev.outcome = "done"
    /\ hub_ev.arg = "active" /\ hub_ev.pre_last = "active"
    /\ Len(calls) = 1 /\ calls[1].current_state = "inactive"
    /\ camera_status = "inactive"

\* C15 as stated: a POST answered with any code from 200 to 299 is logged at
\* info level, and a POST that ends with ResponseFailed is not logged as an
\* error.
C15_AsStated ==
    /\ (hub_ev.kind = "response" /\ hub_ev.code >= 200 /\ hub_ev.code <= 299)
          => hub_ev.level = "info"
    /\ (hub_ev.kind = "failure" /\ hub_ev.failure = "ResponseFailed")
          => hub_ev.level # "error"

\* C16 as stated: a tick that goes active and whose upload fails keeps
\* last_state active, runs notify_hubs and schedules the next tick.
C16_AsStated ==
    (hub_ev.kind = "tick" /\ hub_ev.upload \in {"ClientError", "NameError"}) =>
        /\ hub_ev.result = "active" /\ camera_status = "active"
        /\ hub_ev.notified = 1
        /\ hub_ev.scheduled = 1 /\ Len(calls) = 1

\* C17 as stated: never more than one check_state is pending, and every
\* check_state schedules exactly one successor, as the last thing it does.
C17_AsStated ==
    /\ Len(calls) <= 1
    /\ hub_ev.kind = "tick" => (hub_ev.scheduled = 1 /\ Len(calls) = 1)

\* the registry entry has its expiration, a clock value plus 24 h
WholeEntry(entry) ==
    /\ DOMAIN entry = {"expiration"}
    /\ entry.expiration \in Nat

\* C19: whatever the order of SUBSCRIBE requests and notify_hubs passes,
\* every registry entry has its expiration at every step, so a pass never
\* reads a half-created entry; a SUBSCRIBE changes the entry of its callback
\* only, from the old expiration to the new one, and a pass reads the
\* registry as the last SUBSCRIBE left it and does not change it.
C19_Step ==
    /\ \A k \in DOMAIN subscription_list' : WholeEntry(subscription_list'[k])
    /\ \A k \in DOMAIN subscription_list :
          /\ k \in DOMAIN subscription_list'
          /\ WholeEntry(subscription_list[k])
          /\ subscription_list'[k].expiration \in
                {subscription_list[k].expiration, hub_now + Expiry}
          /\ subscription_list'[k] # subscription_list[k]
                => (hub_ev'.kind = "SUBSCRIBE" /\ Slice1(hub_ev'.header) = k)
    /\ hub_ev'.kind = "tick" =>
          /\ subscription_list' = subscription_list
          /\ hub_ev'.notified = 1 =>
                hub_ev'.attempts =
                    {k \in DOMAIN subscription_list :
                        subscription_list[k].expiration > hub_now}
C19_NoTornRecord == [][C19_Step]_vars

\* C19 witness: a SUBSCRIBE refreshes, to a later expiration, the entry of a
\* callback that a POST of an earlier pass is still in flight to, while the
\* next tick is pending
C19_Witness ==
    /\ hub_ev.kind = "SUBSCRIBE" /\ hub_ev.log = "Refreshed"
    /\ Slice1(hub_ev.header) \in requests
    /\ subscription_list[Slice1(hub_ev.header)].expiration > hub_ev.pre_expiration
    /\ Len(calls) = 1

\* C20: a notify_hubs pass POSTs to every entry still valid, whatever POSTs
\* are still awaiting their outcome, and the tick that ran it schedules the
\* next tick in the same step; the outcome of a POST, a response or a
\* failure, changes neither the pending tick nor the registry nor the
\* snapshot and starts no new POST.
C20_Step ==
    /\ (hub_ev'.kind = "tick" /\ hub_ev'.notified = 1) =>
          /\ hub_ev'.attempts =
                {k \in DOMAIN subscription_list :
                    subscription_list[k].expiration > hub_now}
          /\ requests' = requests \cup hub_ev'.attempts
          /\ hub_ev'.scheduled = 1 /\ Len(calls') = 1
    /\ hub_ev'.kind \in {"response", "failure"} =>
          /\ calls' = calls
          /\ requests' \subseteq requests
          /\ requests \ requests' \subseteq {hub_ev'.to}
          /\ subscription_list' = subscription_list
          /\ camera_status' = camera_status /\ camera_image' = camera_image
C20_FireAndForget == [][C20_Step]_vars

\* C20 witness: the POST to one callback failed with something other than
\* ResponseFailed while the POST of the same pass to the other callback is
\* still in flight and the next tick is pending
C20_Witness ==
    /\ hub_ev.kind = "failure" /\ hub_ev.failure = "ConnectionRefusedError"
    /\ hub_ev.to \notin requests
    /\ requests # {}
    /\ Len(calls) = 1

\* C21: no step removes an entry from the registry: across SUBSCRIBE, GET,
\* discovery, ticks with their notify_hubs passes, responses and clock steps
\* the set of registered callbacks only grows; only a SUBSCRIBE changes the
\* registry at all, so an entry that has expired stays, with its expiration,
\* through every notify_hubs pass that skips it.
C21_Step ==
    /\ DOMAIN subscription_list \subseteq DOMAIN subscription_list'
    /\ hub_ev'.kind # "SUBSCRIBE" => subscription_list' = subscription_list
    /\ \A k \in DOMAIN subscription_list :
          (subscription_list[k].expiration <= hub_now /\ hub_ev'.kind = "tick")
             => /\ k \in DOMAIN subscription_list'
                /\ subscription_list'[k] = subscription_list[k]
                /\ k \notin hub_ev'.attempts
C21_OnlyGrows == [][C21_Step]_vars

\* C21 witness: a notify_hubs pass found two entries, both expired, sent
\* nothing, and both are still registered
C21_Witness ==
    /\ hub_ev.kind = "tick" /\ hub_ev.notified = 1
    /\ hub_ev.attempts = {}
    /\ Cardinality(DOMAIN subscription_list) = 2
    /\ \A k \in DOMAIN subscription_list : subscription_list[k].expiration < hub_now

\* C22: an upload is attempted, and last_image changes, only in a tick that
\* changed the state; a tick that changes nothing, one that stays active and
\* writes its frame locally included, uploads nothing and leaves last_image
\* as it was, and no other handler changes last_image.
C22_Step ==
    /\ camera_image' # camera_image =>
          /\ hub_ev'.kind = "tick"
          /\ hub_ev'.changes >= 1 /\ hub_ev'.result # hub_ev'.arg
          /\ hub_ev'.upload # "none"
    /\ hub_ev'.kind = "tick" =>
          /\ hub_ev'.pre_image = camera_image
          /\ hub_ev'.upload # "none" =>
                (hub_ev'.changes >= 1 /\ hub_ev'.result # hub_ev'.arg)
          /\ (hub_ev'.changes = 0 \/ hub_ev'.result = hub_ev'.arg) =>
                (hub_ev'.upload = "none" /\ camera_image' = camera_image)
C22_UploadOnTransition == [][C22_Step]_vars

\* C22 witness: a tick that stays active on a frame with motion, after an
\* upload set last_image: nothing is uploaded and last_image is kept
C22_Witness ==
    /\ hub_ev.kind = "tick" /\ hub_ev.outcome = "done"
    /\ hub_ev.arg = "active" /\ hub_ev.result = "active"
    /\ Survives(hub_ev.cnts)
    /\ hub_ev.upload = "none"
    /\ camera_image = hub_ev.pre_image /\ camera_image # BlankImage

\* the header line's name, the text before its first colon, is not `st` in
\* any letter case
NotSt(line) ==
    ~(/\ Len(line) >= 3
      /\ Lower(line[1]) = "s" /\ Lower(line[2]) = "t" /\ line[3] = ":")

\* the datagram has no ST header line
NoStHeader(data) == \A i \in 1..Len(data.lines) : NotSt(data.lines[i])

\* C24: a datagram that parses as M-SEARCH * and has no ST header line is
\* answered, whatever device_target is: the search target is taken as empty,
\* the reply goes to the sender and carries an empty ST.
C24_NoStReplies ==
    (/\ hub_ev.kind = "datagram"
     /\ Parses(hub_ev.data)
     /\ hub_ev.data.cmd[1] = "M-SEARCH" /\ hub_ev.data.cmd[2] = "*"
     /\ NoStHeader(hub_ev.data))
        => /\ hub_ev.outcome = "replied"
           /\ hub_ev.search_target = <<>>
           /\ IsSubstring(<<>>, device_target)
           /\ hub_ev.reply_to = hub_ev.address
           /\ hub_ev.reply[3] = <<>>
           /\ hub_ev.reply[5] = device_target

\* C24 witness: an M-SEARCH * whose only header is MAN is answered by the
\* camera of index 2 with an empty ST
C24_Witness ==
    /\ hub_ev.kind = "datagram"
    /\ hub_ev.data.cmd = <<"M-SEARCH", "*", "HTTP/1.1">>
    /\ hub_ev.data.lines = <<<<"M", "A", "N", ":", "d">>>>
    /\ device_target = DeviceTarget(2)
    /\ hub_ev.outcome = "replied" /\ hub_ev.reply[3] = <<>>

====
